---- MODULE Spec2Model ----
(***************************************************************************)
(* A single-cycle RV32I-subset processor (simple_riscv_cpu/cpu.py):        *)
(* CPUMemory, CPUDecoder, CPURegisters and CPU, one clock cycle per step.  *)
(*                                                                         *)
(* A 32-bit signal is a record [hi, lo] of its two 16-bit halves, each a   *)
(* number 0..65535, so that 32-bit arithmetic stays within the integers    *)
(* of the model checker.  A narrower signal is a number; where nmigen      *)
(* concatenates signals (Cat) a part is a pair <<value, width>>.           *)
(***************************************************************************)
EXTENDS Integers, Sequences, FiniteSets, TLC

VARIABLES pc, regs, mem, cycle, instruction_in, decoder_out, sim

vars == <<pc, regs, mem, cycle, instruction_in, decoder_out, sim>>

cpu_vars == <<pc, regs, mem, cycle>>

harness_vars == <<instruction_in, decoder_out, sim>>

(* ---------------------------------------------------------------------- *)
(* Program constants                                                       *)
(* ---------------------------------------------------------------------- *)

MEMORY_START_ADDRESS == 65536

MEMORY_END_ADDRESS == 16777216

RESET_ADDRESS == MEMORY_START_ADDRESS

OUTPUT_PORT_ADDRESS == 268435456

(* ---------------------------------------------------------------------- *)
(* Bounds of the model                                                     *)
(* ---------------------------------------------------------------------- *)

\* the number of clock cycles a run is followed for
MaxCycles == 6

\* the memory holds 2^AddrBits words (the depth of the initial image)
AddrBits == 2

(* ---------------------------------------------------------------------- *)
(* 32-bit signals and the nmigen operators the design uses                 *)
(* ---------------------------------------------------------------------- *)

Word(hi, lo) == [hi |-> hi, lo |-> lo]

ZeroWord == Word(0, 0)

\* bits lo..hi-1 of a number n
IntBits(n, lo, hi) == (n \div (2 ^ lo)) % (2 ^ (hi - lo))

\* v[i] of a 32-bit signal
Bit(v, i) == IF i < 16 THEN IntBits(v.lo, i, i + 1) ELSE IntBits(v.hi, i - 16, i - 15)

\* v[lo:hi] of a 32-bit signal, as a part <<value, width>> (width <= 30)
Bits(v, lo, hi) ==
    << (IF hi <= 16 THEN IntBits(v.lo, lo, hi)
        ELSE IF lo >= 16 THEN IntBits(v.hi, lo - 16, hi - 16)
        ELSE IntBits(v.lo, lo, 16) + IntBits(v.hi, 0, hi - 16) * (2 ^ (16 - lo))),
       hi - lo >>

\* Repl(b, n) for one bit b, as a part (n <= 30)
Repl(b, n) == << b * ((2 ^ n) - 1), n >>

\* Const(n, unsigned(w)) as a part
Const(n, w) == << n, w >>

\* the 32-bit signal holding value v (v < 2^(32-off)) shifted left by off
Place(v, off) ==
    IF off >= 16 THEN Word(v * (2 ^ (off - 16)), 0)
    ELSE LET cut == 2 ^ (16 - off)
         IN  Word(v \div cut, (v % cut) * (2 ^ off))

\* Cat(parts[k], parts[k+1], ...) with parts[k] starting at bit off
RECURSIVE CatFrom(_, _, _)
CatFrom(parts, k, off) ==
    IF k > Len(parts) THEN ZeroWord
    ELSE LET here == Place(parts[k][1], off)
             rest == CatFrom(parts, k + 1, off + parts[k][2])
         IN  Word(here.hi + rest.hi, here.lo + rest.lo)

\* Cat(...) of parts whose widths add up to 32, least significant part first
Cat(parts) == CatFrom(parts, 1, 0)

\* a + b + c (c a carry in, 0 or 1), truncated to 32 bits
AddCarry(a, b, c) ==
    LET lo == a.lo + b.lo + c
        hi == a.hi + b.hi + lo \div 65536
    IN  Word(hi % 65536, lo % 65536)

\* (a + b) assigned to a 32-bit signal
Add(a, b) == AddCarry(a, b, 0)

\* ~a
BitNot(a) == Word(65535 - a.hi, 65535 - a.lo)

\* a faulty subtractor, to try the properties against: the borrow out of
\* the low half is lost
Sub_LosingTheBorrow(a, b) ==
    Word((a.hi + 65536 - b.hi) % 65536, (a.lo + 65536 - b.lo) % 65536)

\* (a - b) assigned to a 32-bit signal
Sub(a, b) == AddCarry(a, BitNot(b), 1)

\* unsigned a < b
ULess(a, b) == a.hi < b.hi \/ (a.hi = b.hi /\ a.lo < b.lo)

UGreaterEq(a, b) == ~ULess(a, b)

\* a faulty signed comparator, to try the properties against: the sign
\* bits are compared as magnitude bits
SLess_IgnoringTheSign(a, b) == ULess(a, b)

\* signed(32) a < b: the sign bits decide when they differ
SLess(a, b) ==
    IF Bit(a, 31) # Bit(b, 31) THEN Bit(a, 31) = 1 ELSE ULess(a, b)

SGreaterEq(a, b) == ~SLess(a, b)

\* a bitwise operation on two numbers of n bits, f its truth table:
\* f[x + 2 * y + 1] is the result bit for operand bits x and y
RECURSIVE BitwiseInt(_, _, _, _)
BitwiseInt(f, a, b, n) ==
    IF n = 0 THEN 0
    ELSE f[(a % 2) + 2 * (b % 2) + 1] + 2 * BitwiseInt(f, a \div 2, b \div 2, n - 1)

Bitwise(f, a, b) == Word(BitwiseInt(f, a.hi, b.hi, 16), BitwiseInt(f, a.lo, b.lo, 16))

BitAnd(a, b) == Bitwise(<<0, 0, 0, 1>>, a, b)

BitOr(a, b) == Bitwise(<<0, 1, 1, 1>>, a, b)

BitXor(a, b) == Bitwise(<<0, 1, 1, 0>>, a, b)

\* a & ~(2^n - 1): the low n bits cleared
ClearLow(a, n) == Cat(<< Const(0, n), Bits(a, n, 32) >>)

\* the configuration constants as 32-bit signals
StartWord == Place(MEMORY_START_ADDRESS, 0)

EndWord == Place(MEMORY_END_ADDRESS, 0)

OutputPortWord == Place(OUTPUT_PORT_ADDRESS, 0)

FourWord == Word(0, 4)

(* ---------------------------------------------------------------------- *)
(* CPUDecoder                                                              *)
(* ---------------------------------------------------------------------- *)

\* class Op(enum.Enum): Invalid and the named operations
Op ==
    {"Invalid", "LoadUpperImm", "AddUpperImmPC", "JumpAndLink", "JumpAndLinkReg",
     "BranchEQ", "BranchNE", "BranchLT", "BranchGE", "BranchLTUnsigned",
     "BranchGEUnsigned", "LoadByte", "LoadHalf", "LoadWord", "LoadByteUnsigned",
     "LoadHalfUnsigned", "StoreByte", "StoreHalf", "StoreWord", "AddImm",
     "SetLTImm", "SetLTImmUnsigned", "XorImm", "OrImm", "AndImm", "ShiftLeftImm",
     "ShiftRightImm", "AddOrSub", "SetLT", "SetLTUnsigned", "Xor", "Or", "And",
     "ShiftLeft", "ShiftRight"}

Decoder_rd(in) == Bits(in, 7, 12)[1]

Decoder_rs1(in) == Bits(in, 15, 20)[1]

Decoder_rs2(in) == Bits(in, 20, 25)[1]

\* a faulty I-immediate, to try the properties against: not sign-extended
i_type_immediate_ZeroExtended(in) == Cat(<< Bits(in, 20, 32), Const(0, 20) >>)

i_type_immediate(in) == Cat(<< Bits(in, 20, 32), Repl(Bit(in, 31), 20) >>)

s_type_immediate(in) ==
    Cat(<< Bits(in, 7, 12), Bits(in, 25, 32), Repl(Bit(in, 31), 20) >>)

b_type_immediate(in) ==
    Cat(<< Const(0, 1), Bits(in, 8, 12), Bits(in, 25, 31), Bits(in, 7, 8),
           Repl(Bit(in, 31), 20) >>)

u_type_immediate(in) == Cat(<< Const(0, 12), Bits(in, 12, 32) >>)

\* a faulty J-immediate, to try the properties against: bit 0 is taken
\* from instruction bit 21 and not fixed to 0
j_type_immediate_WithBitZero(in) ==
    Cat(<< Bits(in, 21, 22), Bits(in, 21, 31), Bits(in, 20, 21), Bits(in, 12, 20),
           Repl(Bit(in, 31), 12) >>)

j_type_immediate(in) ==
    Cat(<< Const(0, 1), Bits(in, 21, 31), Bits(in, 20, 21), Bits(in, 12, 20),
           Repl(Bit(in, 31), 12) >>)

\* The Case patterns, written as in the source: most significant bit first,
\* "-" for a bit that is not compared.  The rs2, rs1 and rd fields are "-"
\* in every pattern of the source, so a pattern is kept as its three
\* compared fields funct7 (bits 31..25), funct3 (14..12), opcode (6..0).
Any7 == <<"-", "-", "-", "-", "-", "-", "-">>

Zero7 == <<"0", "0", "0", "0", "0", "0", "0">>

Bit30Free7 == <<"0", "-", "0", "0", "0", "0", "0">>

Any3 == <<"-", "-", "-">>

BitChar(b) == IF b = 0 THEN "0" ELSE "1"

\* the values of a field that a pattern field p (most significant bit
\* first) matches
FieldValues(p) ==
    LET n == Len(p)
    IN  {v \in 0..((2 ^ n) - 1) :
            \A k \in 1..n : p[k] = "-" \/ p[k] = BitChar(IntBits(v, n - k, n - k + 1))}

Pat(f7, f3, opc) ==
    [f7 |-> FieldValues(f7), f3 |-> FieldValues(f3), opc |-> FieldValues(opc)]

\* one arm of the Switch: its pattern and what it assigns
Arm(pat, op, imm, size, signed, variant) ==
    [pat |-> pat, op |-> op, imm |-> imm, size |-> size,
     load_signed |-> signed, variant |-> variant]

OPC_LUI == <<"0", "1", "1", "0", "1", "1", "1">>

OPC_AUIPC == <<"0", "0", "1", "0", "1", "1", "1">>

OPC_JAL == <<"1", "1", "0", "1", "1", "1", "1">>

OPC_JALR == <<"1", "1", "0", "0", "1", "1", "1">>

OPC_BRANCH == <<"1", "1", "0", "0", "0", "1", "1">>

OPC_LOAD == <<"0", "0", "0", "0", "0", "1", "1">>

OPC_STORE == <<"0", "1", "0", "0", "0", "1", "1">>

OPC_OPIMM == <<"0", "0", "1", "0", "0", "1", "1">>

OPC_OP == <<"0", "1", "1", "0", "0", "1", "1">>

F000 == <<"0", "0", "0">>

\* a faulty pattern, to try the properties against: the top bit of funct3
\* is not compared
F001_TopBitFree == <<"-", "0", "1">>

F001 == <<"0", "0", "1">>

F010 == <<"0", "1", "0">>

F011 == <<"0", "1", "1">>

F100 == <<"1", "0", "0">>

F101 == <<"1", "0", "1">>

F110 == <<"1", "1", "0">>

F111 == <<"1", "1", "1">>

\* The arms in source order.  imm names the immediate the arm assigns
\* ("none": the arm leaves immediate at its reset value 0); size and
\* load_signed likewise; variant tells whether the arm assigns variant from
\* instruction bit 30.
DecoderArms ==
    << Arm(Pat(Any7, Any3, OPC_LUI), "LoadUpperImm", "u", "Unset", 0, FALSE),
       Arm(Pat(Any7, Any3, OPC_AUIPC), "AddUpperImmPC", "u", "Unset", 0, FALSE),
       Arm(Pat(Any7, Any3, OPC_JAL), "JumpAndLink", "j", "Unset", 0, FALSE),
       Arm(Pat(Any7, F000, OPC_JALR), "JumpAndLinkReg", "i", "Unset", 0, FALSE),
       Arm(Pat(Any7, F000, OPC_BRANCH), "BranchEQ", "b", "Unset", 0, FALSE),
       Arm(Pat(Any7, F001, OPC_BRANCH), "BranchNE", "b", "Unset", 0, FALSE),
       Arm(Pat(Any7, F100, OPC_BRANCH), "BranchLT", "b", "Unset", 0, FALSE),
       Arm(Pat(Any7, F101, OPC_BRANCH), "BranchGE", "b", "Unset", 0, FALSE),
       Arm(Pat(Any7, F110, OPC_BRANCH), "BranchLTUnsigned", "b", "Unset", 0, FALSE),
       Arm(Pat(Any7, F111, OPC_BRANCH), "BranchGEUnsigned", "b", "Unset", 0, FALSE),
       Arm(Pat(Any7, F000, OPC_LOAD), "LoadByte", "i", "Byte", 1, FALSE),
       Arm(Pat(Any7, F001, OPC_LOAD), "LoadHalf", "i", "Half", 1, FALSE),
       Arm(Pat(Any7, F010, OPC_LOAD), "LoadWord", "i", "Word", 1, FALSE),
       Arm(Pat(Any7, F100, OPC_LOAD), "LoadByteUnsigned", "i", "Byte", 0, FALSE),
       Arm(Pat(Any7, F101, OPC_LOAD), "LoadHalfUnsigned", "i", "Half", 0, FALSE),
       Arm(Pat(Any7, F000, OPC_STORE), "StoreByte", "s", "Byte", 0, FALSE),
       Arm(Pat(Any7, F001, OPC_STORE), "StoreHalf", "s", "Half", 0, FALSE),
       Arm(Pat(Any7, F010, OPC_STORE), "StoreWord", "s", "Word", 0, FALSE),
       Arm(Pat(Any7, F000, OPC_OPIMM), "AddImm", "i", "Unset", 0, FALSE),
       Arm(Pat(Zero7, F001, OPC_OPIMM), "ShiftLeftImm", "i", "Unset", 0, FALSE),
       Arm(Pat(Any7, F010, OPC_OPIMM), "SetLTImm", "i", "Unset", 0, FALSE),
       Arm(Pat(Any7, F011, OPC_OPIMM), "SetLTImmUnsigned", "i", "Unset", 0, FALSE),
       Arm(Pat(Any7, F100, OPC_OPIMM), "XorImm", "i", "Unset", 0, FALSE),
       Arm(Pat(Bit30Free7, F101, OPC_OPIMM), "ShiftRightImm", "i", "Unset", 0, TRUE),
       Arm(Pat(Any7, F110, OPC_OPIMM), "OrImm", "i", "Unset", 0, FALSE),
       Arm(Pat(Any7, F111, OPC_OPIMM), "AndImm", "i", "Unset", 0, FALSE),
       Arm(Pat(Bit30Free7, F000, OPC_OP), "AddOrSub", "none", "Unset", 0, TRUE),
       Arm(Pat(Zero7, F001, OPC_OP), "ShiftLeft", "none", "Unset", 0, FALSE),
       Arm(Pat(Zero7, F010, OPC_OP), "SetLT", "none", "Unset", 0, FALSE),
       Arm(Pat(Zero7, F011, OPC_OP), "SetLTUnsigned", "none", "Unset", 0, FALSE),
       Arm(Pat(Zero7, F100, OPC_OP), "Xor", "none", "Unset", 0, FALSE),
       Arm(Pat(Bit30Free7, F101, OPC_OP), "ShiftRight", "none", "Unset", 0, TRUE),
       Arm(Pat(Zero7, F110, OPC_OP), "Or", "none", "Unset", 0, FALSE),
       Arm(Pat(Zero7, F111, OPC_OP), "And", "none", "Unset", 0, FALSE) >>

\* with m.Default(): no pattern matched
DefaultArm == Arm(Pat(Any7, Any3, Any7), "Invalid", "none", "Unset", 0, FALSE)

\* a faulty matcher, to try the properties against: funct7 is not compared
Matches_IgnoringFunct7(pat, opcode, funct3, funct7) ==
    /\ opcode \in pat.opc
    /\ funct3 \in pat.f3

\* a faulty matcher, to try the properties against: funct3 is not compared
Matches_IgnoringFunct3(pat, opcode, funct3, funct7) ==
    /\ opcode \in pat.opc
    /\ funct7 \in pat.f7

\* a word matches a pattern when each compared field does
Matches(pat, opcode, funct3, funct7) ==
    /\ opcode \in pat.opc
    /\ funct3 \in pat.f3
    /\ funct7 \in pat.f7

\* a Switch takes the first of its arms whose pattern matches, and the
\* Default when none does
FirstMatch(arms, opcode, funct3, funct7) ==
    LET hit == {k \in 1..Len(arms) : Matches(arms[k].pat, opcode, funct3, funct7)}
    IN  IF hit = {} THEN DefaultArm
        ELSE arms[CHOOSE k \in hit : \A j \in hit : k <= j]

\* with m.Switch(self.instruction_in)
SelectArm(in) ==
    FirstMatch(DecoderArms, Bits(in, 0, 7)[1], Bits(in, 12, 15)[1],
               Bits(in, 25, 32)[1])

\* a faulty immediate, to try the properties against: the I-type one,
\* whatever the arm
ArmImmediate_AlwaysIType(arm, in) ==
    IF arm.imm = "none" THEN ZeroWord ELSE i_type_immediate(in)

\* what the selected arm assigns to immediate
ArmImmediate(arm, in) ==
    CASE arm.imm = "u" -> u_type_immediate(in)
      [] arm.imm = "j" -> j_type_immediate(in)
      [] arm.imm = "i" -> i_type_immediate(in)
      [] arm.imm = "s" -> s_type_immediate(in)
      [] arm.imm = "b" -> b_type_immediate(in)
      [] OTHER -> ZeroWord

\* a faulty variant, to try the properties against: the two outcomes of the
\* Mux exchanged
ArmVariant_Exchanged(arm, in) ==
    IF arm.variant
    THEN (IF Bit(in, 30) = 1 THEN "Add_ShiftUnsigned" ELSE "Sub_ShiftSigned")
    ELSE "Unset"

\* Mux(instruction_in[30], Sub_ShiftSigned, Add_ShiftUnsigned) where assigned
ArmVariant(arm, in) ==
    IF arm.variant
    THEN (IF Bit(in, 30) = 1 THEN "Sub_ShiftSigned" ELSE "Add_ShiftUnsigned")
    ELSE "Unset"

\* the outputs of the decoder for one instruction word (the five
\* x_type_immediate signals are the operators above)
DecoderAssign(arm, in) ==
    [op |-> arm.op,
     immediate |-> ArmImmediate(arm, in),
     rd |-> Decoder_rd(in),
     rs1 |-> Decoder_rs1(in),
     rs2 |-> Decoder_rs2(in),
     variant |-> ArmVariant(arm, in),
     load_store_size |-> arm.size,
     load_signed |-> arm.load_signed]

CPUDecoder(in) == DecoderAssign(SelectArm(in), in)

\* the decoder's outputs d together with its five x_type_immediate signals
DecoderSignals(d, in) ==
    [op |-> d.op, immediate |-> d.immediate, rd |-> d.rd, rs1 |-> d.rs1,
     rs2 |-> d.rs2, variant |-> d.variant,
     load_store_size |-> d.load_store_size, load_signed |-> d.load_signed,
     i_type_immediate |-> i_type_immediate(in),
     s_type_immediate |-> s_type_immediate(in),
     b_type_immediate |-> b_type_immediate(in),
     u_type_immediate |-> u_type_immediate(in),
     j_type_immediate |-> j_type_immediate(in)]

\* every signal of the decoder for one instruction word
DecoderOutputs(in) == DecoderSignals(CPUDecoder(in), in)

(* ---------------------------------------------------------------------- *)
(* CPUMemory                                                               *)
(* ---------------------------------------------------------------------- *)

\* Memory(depth=len(initial_words)): the word indices
MemDepth == 2 ^ AddrBits

MemIndices == 0..(MemDepth - 1)

\* ((address - MEMORY_START_ADDRESS) >> 2) assigned to a port address, which
\* is AddrBits wide
PortAddr(address) ==
    Bits(Sub(address, StartWord), 2, 2 + AddrBits)[1]

\* data read port and instruction read port (domain "comb")
MemoryRead(m, address) == m[PortAddr(address)]

InWindow(address) ==
    /\ UGreaterEq(address, StartWord)
    /\ ULess(address, EndWord)

\* a faulty write enable, to try the properties against: no window test
WritePortEn_WithoutWindow(address, write_byte_enables) == write_byte_enables

\* write_port.en
WritePortEn(address, write_byte_enables) ==
    IF InWindow(address) THEN write_byte_enables ELSE 0

\* byte lane l (0..3) of a word, as a part
Lane(w, l) == Bits(w, 8 * l, 8 * l + 8)

\* write_port(granularity=8): the lanes whose enable bit is set take the lanes
\* of data, at the clock edge
WriteWord(old, data, en) ==
    Cat(<< IF IntBits(en, 0, 1) = 1 THEN Lane(data, 0) ELSE Lane(old, 0),
           IF IntBits(en, 1, 2) = 1 THEN Lane(data, 1) ELSE Lane(old, 1),
           IF IntBits(en, 2, 3) = 1 THEN Lane(data, 2) ELSE Lane(old, 2),
           IF IntBits(en, 3, 4) = 1 THEN Lane(data, 3) ELSE Lane(old, 3) >>)

MemoryNext(m, address, write_data, write_byte_enables) ==
    LET en == WritePortEn(address, write_byte_enables)
        a == PortAddr(address)
    IN  [m EXCEPT ![a] = WriteWord(m[a], write_data, en)]

\* a faulty output port, to try the properties against: the second byte of
\* the write data is put out
MemoryOutputPortData_SecondByte(address, write_data) ==
    IF address = OutputPortWord
    THEN Bits(write_data, 8, 16)[1] ELSE 0

MemoryOutputPortData(address, write_data) ==
    IF address = OutputPortWord
    THEN Bits(write_data, 0, 8)[1] ELSE 0

\* a faulty output port, to try the properties against: valid whenever the
\* address is the port's
MemoryOutputPortValid_ByAddressAlone(address, write_byte_enables) ==
    IF address = OutputPortWord THEN 1 ELSE 0

MemoryOutputPortValid(address, write_byte_enables) ==
    IF address = OutputPortWord
    THEN IntBits(write_byte_enables, 0, 1) ELSE 0

(* ---------------------------------------------------------------------- *)
(* CPURegisters                                                            *)
(* ---------------------------------------------------------------------- *)

RegIndices == 0..31

\* rs1_read_data / rs2_read_data
RegRead(r, addr) == r[addr]

\* a faulty register file, to try the properties against: the write is lost
RegistersNext_LosingTheWrite(r, rd_addr, rd_write_enable, rd_write_data) == r

\* a faulty register file, to try the properties against: register 0 is
\* written like any other
RegistersNext_WritingZero(r, rd_addr, rd_write_enable, rd_write_data) ==
    [i \in RegIndices |->
        IF i = rd_addr /\ rd_write_enable = 1 THEN rd_write_data ELSE r[i]]

\* the synchronous write: register rd_addr, unless it is register 0
RegistersNext(r, rd_addr, rd_write_enable, rd_write_data) ==
    [i \in RegIndices |->
        IF i = rd_addr /\ i # 0 /\ rd_write_enable = 1
        THEN rd_write_data ELSE r[i]]

(* ---------------------------------------------------------------------- *)
(* CPU                                                                     *)
(* ---------------------------------------------------------------------- *)

LoadOps ==
    {"LoadByte", "LoadHalf", "LoadWord", "LoadByteUnsigned", "LoadHalfUnsigned"}

StoreOps == {"StoreByte", "StoreHalf", "StoreWord"}

BranchOps ==
    {"BranchEQ", "BranchNE", "BranchLT", "BranchGE",
     "BranchLTUnsigned", "BranchGEUnsigned"}

\* the operations whose arm drives rd_write_enable to True
RegWriteOps ==
    {"LoadUpperImm", "AddUpperImmPC", "JumpAndLink", "JumpAndLinkReg",
     "AddImm", "SetLTImm", "SetLTImmUnsigned", "XorImm", "OrImm", "AndImm",
     "ShiftLeftImm", "ShiftRightImm", "AddOrSub", "SetLT", "SetLTUnsigned",
     "Xor", "Or", "And", "ShiftLeft", "ShiftRight"} \cup LoadOps

LoadStoreAddress(rs1_read_data, immediate) == Add(rs1_read_data, immediate)

\* load_store_address & ~0x3
MemoryAddress(load_store_address) == ClearLow(load_store_address, 2)

\* value.word_select(index, w), as a part
WordSelect(v, index, w) == Bits(v, index * w, index * w + w)

\* faulty byte enables, to try the properties against: every lane, whatever
\* the width
StoreByteEnables_EveryLane(size, load_store_address) == 15

\* store_byte_enables, a 4-bit number
StoreByteEnables(size, load_store_address) ==
    CASE size = "Byte" ->
            LET byte_index == Bits(load_store_address, 0, 2)[1]
            IN  2 ^ byte_index
      [] size = "Half" ->
            LET half_index == Bit(load_store_address, 1)
                store_half_enables == 2 ^ half_index
                e0 == IntBits(store_half_enables, 0, 1)
                e1 == IntBits(store_half_enables, 1, 2)
            IN  e0 + 2 * e0 + 4 * e1 + 8 * e1
      [] size = "Word" -> 15
      [] OTHER -> 0

\* a faulty store path, to try the properties against: the register value
\* is not replicated onto the lanes
MemoryWriteData_Unreplicated(size, rs2_read_data) == rs2_read_data

MemoryWriteData(size, rs2_read_data) ==
    CASE size = "Byte" ->
            LET b == Bits(rs2_read_data, 0, 8) IN Cat(<<b, b, b, b>>)
      [] size = "Half" ->
            LET h == Bits(rs2_read_data, 0, 16) IN Cat(<<h, h>>)
      [] size = "Word" -> rs2_read_data
      [] OTHER -> ZeroWord

\* a faulty load path, to try the properties against: every load
\* zero-extends
LoadData_ZeroExtending(size, load_signed, load_store_address, read_data) ==
    CASE size = "Byte" ->
            LET byte_index == Bits(load_store_address, 0, 2)[1]
            IN  Cat(<< WordSelect(read_data, byte_index, 8), Const(0, 24) >>)
      [] size = "Half" ->
            LET half_index == Bit(load_store_address, 1)
            IN  Cat(<< WordSelect(read_data, half_index, 16), Const(0, 16) >>)
      [] size = "Word" -> read_data
      [] OTHER -> ZeroWord

LoadData(size, load_signed, load_store_address, read_data) ==
    CASE size = "Byte" ->
            LET byte_index == Bits(load_store_address, 0, 2)[1]
                load_data_byte == WordSelect(read_data, byte_index, 8)
            IN  Cat(<< load_data_byte,
                       Repl(load_signed * IntBits(load_data_byte[1], 7, 8), 24) >>)
      [] size = "Half" ->
            LET half_index == Bit(load_store_address, 1)
                load_data_half == WordSelect(read_data, half_index, 16)
            IN  Cat(<< load_data_half,
                       Repl(load_signed * IntBits(load_data_half[1], 15, 16), 16) >>)
      [] size = "Word" -> read_data
      [] OTHER -> ZeroWord

\* memory.write_byte_enables: driven by the store arm only
MemoryWriteByteEnables(op, store_byte_enables) ==
    IF op \in StoreOps THEN store_byte_enables ELSE 0

\* (a << n) assigned to 32 bits, 0 <= n <= 31
ShiftLeftWord(a, n) ==
    IF n >= 16 THEN Word((a.lo * (2 ^ (n - 16))) % 65536, 0)
    ELSE LET lo == a.lo * (2 ^ n)
         IN  Word((a.hi * (2 ^ n) + lo \div 65536) % 65536, lo % 65536)

\* unsigned (a >> n), 0 <= n <= 31
ShiftRightLogical(a, n) ==
    IF n >= 16 THEN Word(0, a.hi \div (2 ^ (n - 16)))
    ELSE Word(a.hi \div (2 ^ n),
              a.lo \div (2 ^ n) + (a.hi % (2 ^ n)) * (2 ^ (16 - n)))

\* a faulty arithmetic shifter, to try the properties against: the vacated
\* bits are filled with zeros
ShiftRightArith_FillingZeros(a, n) ==
    IF n >= 16 THEN Word(0, a.hi \div (2 ^ (n - 16)))
    ELSE Word(a.hi \div (2 ^ n),
              a.lo \div (2 ^ n) + (a.hi % (2 ^ n)) * (2 ^ (16 - n)))

\* signed (a >> n), 0 <= n <= 31: the vacated bits take the sign bit
ShiftRightArith(a, n) ==
    LET l == ShiftRightLogical(a, n)
        fill == IF Bit(a, 31) = 1
                THEN BitNot(ShiftRightLogical(Word(65535, 65535), n))
                ELSE ZeroWord
    IN  Word(l.hi + fill.hi, l.lo + fill.lo)

BoolWord(b) == IF b THEN Word(0, 1) ELSE ZeroWord

\* faulty branch conditions, to try the properties against: BranchLT and
\* BranchGE compare as unsigned
BranchTaken_AllUnsigned(op, rs1_read_data, rs2_read_data) ==
    CASE op = "BranchEQ" -> rs1_read_data = rs2_read_data
      [] op = "BranchNE" -> rs1_read_data # rs2_read_data
      [] op \in {"BranchLT", "BranchLTUnsigned"} -> ULess(rs1_read_data, rs2_read_data)
      [] op \in {"BranchGE", "BranchGEUnsigned"} ->
            UGreaterEq(rs1_read_data, rs2_read_data)
      [] OTHER -> FALSE

\* the branch condition of a branch arm
BranchTaken(op, rs1_read_data, rs2_read_data) ==
    CASE op = "BranchEQ" -> rs1_read_data = rs2_read_data
      [] op = "BranchNE" -> rs1_read_data # rs2_read_data
      [] op = "BranchLT" -> SLess(rs1_read_data, rs2_read_data)
      [] op = "BranchGE" -> SGreaterEq(rs1_read_data, rs2_read_data)
      [] op = "BranchLTUnsigned" -> ULess(rs1_read_data, rs2_read_data)
      [] op = "BranchGEUnsigned" -> UGreaterEq(rs1_read_data, rs2_read_data)
      [] OTHER -> FALSE

\* a faulty fallthrough, to try the properties against: the PC advances by
\* a half-word
NextPcFallthrough_ByTwo(pcv) == Add(pcv, Word(0, 2))

NextPcFallthrough(pcv) == Add(pcv, FourWord)

\* a faulty next PC, to try the properties against: Invalid has no arm of
\* its own and falls through
NextPc_InvalidFallsThrough(op, immediate, pcv, rs1_read_data, rs2_read_data) ==
    CASE op = "JumpAndLink" -> Add(pcv, immediate)
      [] op = "JumpAndLinkReg" ->
            ClearLow(Add(rs1_read_data, immediate), 1)
      [] op \in BranchOps ->
            IF BranchTaken(op, rs1_read_data, rs2_read_data)
            THEN Add(pcv, immediate) ELSE NextPcFallthrough(pcv)
      [] OTHER -> NextPcFallthrough(pcv)

\* a faulty next PC, to try the properties against: JumpAndLinkReg keeps
\* bit 0 of its target
NextPc_JalrKeepsBitZero(op, immediate, pcv, rs1_read_data, rs2_read_data) ==
    CASE op = "Invalid" -> pcv
      [] op = "JumpAndLink" -> Add(pcv, immediate)
      [] op = "JumpAndLinkReg" -> Add(rs1_read_data, immediate)
      [] op \in BranchOps ->
            IF BranchTaken(op, rs1_read_data, rs2_read_data)
            THEN Add(pcv, immediate) ELSE NextPcFallthrough(pcv)
      [] OTHER -> NextPcFallthrough(pcv)

NextPc(op, immediate, pcv, rs1_read_data, rs2_read_data) ==
    CASE op = "Invalid" -> pcv
      [] op = "JumpAndLink" -> Add(pcv, immediate)
      [] op = "JumpAndLinkReg" ->
            ClearLow(Add(rs1_read_data, immediate), 1)
      [] op \in BranchOps ->
            IF BranchTaken(op, rs1_read_data, rs2_read_data)
            THEN Add(pcv, immediate) ELSE NextPcFallthrough(pcv)
      [] OTHER -> NextPcFallthrough(pcv)

\* a faulty write enable, to try the properties against: every operation
\* writes its rd
RdWriteEnable_EveryOperation(op) == 1

RdWriteEnable(op) == IF op \in RegWriteOps THEN 1 ELSE 0

RdWriteData(d, pcv, rs1_read_data, rs2_read_data, load_data) ==
    LET shamt_imm == Bits(d.immediate, 0, 5)[1]
        shamt_rs2 == Bits(rs2_read_data, 0, 5)[1]
    IN
    CASE d.op = "LoadUpperImm" -> d.immediate
      [] d.op = "AddUpperImmPC" -> Add(d.immediate, pcv)
      [] d.op \in {"JumpAndLink", "JumpAndLinkReg"} -> NextPcFallthrough(pcv)
      [] d.op \in LoadOps -> load_data
      [] d.op = "AddImm" -> Add(rs1_read_data, d.immediate)
      [] d.op = "SetLTImm" -> BoolWord(SLess(rs1_read_data, d.immediate))
      [] d.op = "SetLTImmUnsigned" -> BoolWord(ULess(rs1_read_data, d.immediate))
      [] d.op = "XorImm" -> BitXor(rs1_read_data, d.immediate)
      [] d.op = "OrImm" -> BitOr(rs1_read_data, d.immediate)
      [] d.op = "AndImm" -> BitAnd(rs1_read_data, d.immediate)
      [] d.op = "ShiftLeftImm" -> ShiftLeftWord(rs1_read_data, shamt_imm)
      [] d.op = "ShiftRightImm" ->
            IF d.variant = "Sub_ShiftSigned"
            THEN ShiftRightArith(rs1_read_data, shamt_imm)
            ELSE ShiftRightLogical(rs1_read_data, shamt_imm)
      [] d.op = "AddOrSub" ->
            IF d.variant = "Sub_ShiftSigned"
            THEN Sub(rs1_read_data, rs2_read_data)
            ELSE Add(rs1_read_data, rs2_read_data)
      [] d.op = "SetLT" -> BoolWord(SLess(rs1_read_data, rs2_read_data))
      [] d.op = "SetLTUnsigned" -> BoolWord(ULess(rs1_read_data, rs2_read_data))
      [] d.op = "Xor" -> BitXor(rs1_read_data, rs2_read_data)
      [] d.op = "Or" -> BitOr(rs1_read_data, rs2_read_data)
      [] d.op = "And" -> BitAnd(rs1_read_data, rs2_read_data)
      [] d.op = "ShiftLeft" -> ShiftLeftWord(rs1_read_data, shamt_rs2)
      [] d.op = "ShiftRight" ->
            IF d.variant = "Sub_ShiftSigned"
            THEN ShiftRightArith(rs1_read_data, shamt_rs2)
            ELSE ShiftRightLogical(rs1_read_data, shamt_rs2)
      [] OTHER -> ZeroWord

\* the signals of the CPU once the decoder's outputs d for the fetched
\* instruction are known
CPUDatapath(pcv, r, m, instruction, d) ==
    LET rs1_read_data == RegRead(r, d.rs1)
        rs2_read_data == RegRead(r, d.rs2)
        load_store_address == LoadStoreAddress(rs1_read_data, d.immediate)
        address == MemoryAddress(load_store_address)
        read_data == MemoryRead(m, address)
        store_byte_enables == StoreByteEnables(d.load_store_size, load_store_address)
        write_data == MemoryWriteData(d.load_store_size, rs2_read_data)
        load_data == LoadData(d.load_store_size, d.load_signed,
                              load_store_address, read_data)
        write_byte_enables == MemoryWriteByteEnables(d.op, store_byte_enables)
    IN  [instruction |-> instruction,
         decoder |-> d,
         rs1_read_data |-> rs1_read_data,
         rs2_read_data |-> rs2_read_data,
         load_store_address |-> load_store_address,
         address |-> address,
         read_data |-> read_data,
         store_byte_enables |-> store_byte_enables,
         write_data |-> write_data,
         write_byte_enables |-> write_byte_enables,
         load_data |-> load_data,
         next_pc |-> NextPc(d.op, d.immediate, pcv, rs1_read_data, rs2_read_data),
         rd_write_enable |-> RdWriteEnable(d.op),
         rd_write_data |-> RdWriteData(d, pcv, rs1_read_data, rs2_read_data,
                                       load_data),
         output_port_data |-> MemoryOutputPortData(address, write_data),
         output_port_valid |-> MemoryOutputPortValid(address, write_byte_enables)]

\* the instruction at the PC, and the decoder's outputs for it
CPUDecode(pcv, r, m, instruction) ==
    CPUDatapath(pcv, r, m, instruction, CPUDecoder(instruction))

\* every combinational signal of the CPU, as a function of the registered
\* state: the PC, the register file and the memory words
CPUSignals(pcv, r, m) == CPUDecode(pcv, r, m, MemoryRead(m, pcv))

\* the signals of the current cycle
Sig == CPUSignals(pc, regs, mem)

(* ---------------------------------------------------------------------- *)
(* Instruction words the runs are started from                             *)
(* ---------------------------------------------------------------------- *)

\* v as a two's complement number of w bits, for -2^(w-1) <= v < 2^(w-1)
TwosComp(v, w) == IF v >= 0 THEN v ELSE v + 2 ^ w

\* the six instruction layouts, fields given as numbers
EncR(funct7, rs2, rs1, funct3, rd, opcode) ==
    Cat(<< Const(opcode, 7), Const(rd, 5), Const(funct3, 3), Const(rs1, 5),
           Const(rs2, 5), Const(funct7, 7) >>)

EncI(offset, rs1, funct3, rd, opcode) ==
    Cat(<< Const(opcode, 7), Const(rd, 5), Const(funct3, 3), Const(rs1, 5),
           Const(TwosComp(offset, 12), 12) >>)

EncS(offset, rs2, rs1, funct3, opcode) ==
    LET i == TwosComp(offset, 12)
    IN  Cat(<< Const(opcode, 7), Const(IntBits(i, 0, 5), 5), Const(funct3, 3),
               Const(rs1, 5), Const(rs2, 5), Const(IntBits(i, 5, 12), 7) >>)

EncB(offset, rs2, rs1, funct3, opcode) ==
    LET i == TwosComp(offset, 13)
    IN  Cat(<< Const(opcode, 7), Const(IntBits(i, 11, 12), 1),
               Const(IntBits(i, 1, 5), 4), Const(funct3, 3), Const(rs1, 5),
               Const(rs2, 5), Const(IntBits(i, 5, 11), 6),
               Const(IntBits(i, 12, 13), 1) >>)

\* upper is the immediate divided by 4096, as a signed 20-bit number
EncU(upper, rd, opcode) ==
    Cat(<< Const(opcode, 7), Const(rd, 5), Const(TwosComp(upper, 20), 20) >>)

EncJ(offset, rd, opcode) ==
    LET i == TwosComp(offset, 21)
    IN  Cat(<< Const(opcode, 7), Const(rd, 5), Const(IntBits(i, 12, 20), 8),
               Const(IntBits(i, 11, 12), 1), Const(IntBits(i, 1, 11), 10),
               Const(IntBits(i, 20, 21), 1) >>)

AllOnesWord == Word(65535, 65535)

\* word 0 of a program: gives x1 a value
SetupX1 ==
    { EncI(5, 0, 0, 1, 19),            \* addi x1, x0, 5
      EncI(-1, 0, 0, 1, 19),           \* addi x1, x0, -1
      EncU(-524288, 1, 55),            \* lui x1, 0x80000
      EncU(65536, 1, 55),              \* lui x1, 0x10000  (the output port)
      EncU(16, 1, 55),                 \* lui x1, 0x10     (the memory base)
      EncU(4096, 1, 55) }              \* lui x1, 0x1000   (the memory end)

\* word 1 of a program: gives x2 a value
SetupX2 ==
    { EncI(5, 0, 0, 2, 19),            \* addi x2, x0, 5
      EncI(-1, 0, 0, 2, 19),           \* addi x2, x0, -1
      EncI(255, 0, 0, 2, 19),          \* addi x2, x0, 0xFF
      EncI(-1883, 0, 0, 2, 19),        \* addi x2, x0, -1883 (0xFFFFF8A5)
      EncU(-524288, 2, 55),            \* lui x2, 0x80000
      EncU(74565, 2, 55),              \* lui x2, 0x12345
      EncR(0, 1, 1, 0, 2, 51) }        \* add x2, x1, x1

BranchWords ==
    { EncB(off, 2, 1, f3, 99) : off \in {8, -8, -4096, 4094},
                                f3 \in {0, 1, 4, 5, 6, 7} }

StoreWords ==
    { EncS(off, 2, 1, f3, 35) : off \in {-1, 0, 1, 2, 3, 6, 13}, f3 \in 0..2 }

LoadWords ==
    { EncI(off, 1, f3, 3, 3) : off \in 0..3, f3 \in {0, 1, 2, 4, 5} }

AluImmWords ==
    { EncI(-3, 1, f3, 3, 19) : f3 \in {0, 2, 3, 4, 6, 7} }
    \cup { EncR(0, 4, 1, 1, 3, 19),    \* slli x3, x1, 4
           EncR(0, 4, 1, 5, 3, 19),    \* srli x3, x1, 4
           EncR(32, 4, 1, 5, 3, 19),   \* srai x3, x1, 4
           EncR(0, 17, 1, 1, 3, 19),   \* slli x3, x1, 17
           EncR(0, 31, 1, 5, 3, 19),   \* srli x3, x1, 31
           EncR(32, 17, 1, 5, 3, 19),  \* srai x3, x1, 17
           EncI(5, 1, 0, 1, 19),       \* addi x1, x1, 5
           EncI(5, 1, 0, 0, 19) }      \* addi x0, x1, 5

AluRegWords ==
    { EncR(0, 2, 1, f3, 3, 51) : f3 \in 0..7 }
    \cup { EncR(32, 2, 1, 0, 3, 51),   \* sub x3, x1, x2
           EncR(32, 2, 1, 5, 3, 51),   \* sra x3, x1, x2
           EncR(0, 2, 1, 0, 1, 51),    \* add x1, x1, x2
           EncR(0, 2, 1, 0, 0, 51) }   \* add x0, x1, x2

UpperAndJumpWords ==
    { EncU(74565, 0, 55),              \* lui x0, 0x12345
      EncU(74565, 3, 55),              \* lui x3, 0x12345
      EncU(-1, 3, 23),                 \* auipc x3, 0xFFFFF
      EncJ(-8, 3, 111),                \* jal x3, -8
      EncJ(6, 0, 111),                 \* jal x0, 6
      EncI(1, 1, 0, 3, 103),           \* jalr x3, 1(x1)
      EncI(-4, 1, 0, 1, 103) }         \* jalr x1, -4(x1)

InvalidWords ==
    { ZeroWord, AllOnesWord,
      EncR(32, 4, 1, 1, 3, 19),        \* slli with funct7 0100000
      EncR(1, 2, 1, 0, 3, 51),         \* opcode OP with funct7 0000001
      EncR(32, 2, 1, 1, 3, 51),        \* opcode OP, funct3 001, funct7 0100000
      EncR(33, 4, 1, 5, 3, 19),        \* srai with funct7 0100001
      EncI(0, 1, 3, 3, 3),             \* opcode LOAD with funct3 011
      EncI(0, 1, 6, 3, 3),             \* opcode LOAD with funct3 110
      EncS(0, 2, 1, 3, 35),            \* opcode STORE with funct3 011
      EncB(8, 2, 1, 2, 99),            \* opcode BRANCH with funct3 010
      EncB(-8, 2, 1, 3, 99),           \* opcode BRANCH with funct3 011
      EncI(0, 1, 1, 3, 103),           \* opcode JALR with funct3 001
      EncI(0, 0, 0, 0, 15),            \* opcode MISC-MEM (fence)
      EncI(0, 0, 0, 0, 115),           \* opcode SYSTEM (ecall)
      EncU(74565, 1, 54) }             \* the opcode of lui with bit 0 cleared

\* word 2 of a program: the instruction under test
TestWords ==
    BranchWords \cup StoreWords \cup LoadWords \cup AluImmWords
        \cup AluRegWords \cup UpperAndJumpWords \cup InvalidWords

\* word 3 of a program
TailWords ==
    { ZeroWord,
      EncJ(-12, 0, 111),               \* jal x0, -12
      EncI(0, 1, 2, 3, 3),             \* lw x3, 0(x1)
      EncS(2, 2, 1, 1, 35) }           \* sh x2, 2(x1)

\* fourth words that load back what a store in the third word wrote
LoadBackWords ==
    { EncI(1, 1, 0, 3, 3),             \* lb  x3, 1(x1)
      EncI(1, 1, 4, 3, 3),             \* lbu x3, 1(x1)
      EncI(2, 1, 1, 3, 3),             \* lh  x3, 2(x1)
      EncI(2, 1, 5, 3, 3) }            \* lhu x3, 2(x1)

\* initial_words: four program words, then zeros up to the depth
InitialImage(w0, w1, w2, w3) ==
    [i \in MemIndices |->
        CASE i = 0 -> w0 [] i = 1 -> w1 [] i = 2 -> w2 [] i = 3 -> w3
          [] OTHER -> ZeroWord]

(* ---------------------------------------------------------------------- *)
(* The processor: one action, the clock edge                               *)
(* ---------------------------------------------------------------------- *)

\* the stand-alone decoder bench is not running
HarnessIdle ==
    /\ instruction_in = ZeroWord
    /\ decoder_out = DecoderOutputs(ZeroWord)
    /\ sim = [at |-> "idle", format |-> "none", other |-> <<>>, offset |-> 0]

Init ==
    /\ pc = Place(RESET_ADDRESS, 0)
    /\ regs = [i \in RegIndices |-> ZeroWord]
    /\ \E w0 \in SetupX1, w1 \in SetupX2 :
           \/ \E w2 \in TestWords, w3 \in TailWords :
                  mem = InitialImage(w0, w1, w2, w3)
           \/ \E w2 \in StoreWords, w3 \in LoadBackWords :
                  mem = InitialImage(w0, w1, w2, w3)
    /\ cycle = 0
    /\ HarnessIdle

\* m.d.sync: the PC, the register file and the memory take their next values
Cycle ==
    /\ cycle < MaxCycles
    /\ \E s \in {Sig} :
           /\ pc' = s.next_pc
           /\ regs' = RegistersNext(regs, s.decoder.rd, s.rd_write_enable,
                                    s.rd_write_data)
           /\ mem' = MemoryNext(mem, s.address, s.write_data,
                                s.write_byte_enables)
    /\ cycle' = cycle + 1
    /\ UNCHANGED harness_vars

Next == Cycle

Spec == Init /\ [][Next]_vars

(* ---------------------------------------------------------------------- *)
(* The decoder on its own, driven as test_decoder.py drives it: one        *)
(* instruction word is applied and the outputs are sampled                 *)
(* ---------------------------------------------------------------------- *)

\* one run of the test bench: what the word it applies is built from (an
\* instruction layout and the fields that are fixed for the run); once the
\* word is applied, the offset that was encoded into its immediate
TestRun(format, other) ==
    [at |-> "start", format |-> format, other |-> other, offset |-> 0]

\* the other bits of a word built from an immediate: all zeros, all ones,
\* or those of a usual instruction
OtherBits ==
    [I |-> {<<0, 0, 0, 0>>, <<31, 7, 31, 127>>, <<16, 6, 5, 19>>},
     S |-> {<<0, 0, 0, 0>>, <<31, 31, 7, 127>>, <<12, 20, 0, 35>>},
     B |-> {<<0, 0, 0, 0>>, <<31, 31, 7, 127>>, <<20, 12, 6, 99>>},
     U |-> {<<0, 0>>, <<31, 127>>, <<12, 55>>, <<3, 23>>},
     J |-> {<<0, 0>>, <<31, 127>>, <<31, 111>>}]

DecoderInit ==
    /\ pc = StartWord
    /\ regs = [i \in RegIndices |-> ZeroWord]
    /\ mem = [i \in MemIndices |-> ZeroWord]
    /\ cycle = 0
    /\ instruction_in = ZeroWord
    /\ decoder_out = DecoderOutputs(ZeroWord)
    /\ \/ \E opcode \in 0..127, fill \in {0, 31} :
             sim = TestRun("fields", <<opcode, fill>>)
       \/ \E format \in DOMAIN OtherBits :
             \E o \in OtherBits[format] : sim = TestRun(format, o)
       \/ sim = TestRun("vector", <<>>)

\* input_process: instruction_in.eq(instruction); the outputs settle
Drive(instruction, offset) ==
    /\ instruction_in' = instruction
    /\ decoder_out' = DecoderOutputs(instruction)
    /\ sim' = [sim EXCEPT !.at = "driven", !.offset = offset]
    /\ UNCHANGED cpu_vars

\* the opcodes the decoder has arms for
KnownOpcodes == {55, 23, 111, 103, 99, 3, 35, 19, 51}

\* every (funct7, funct3) under a known opcode, every funct3 and three
\* values of funct7 under any other; the register fields all zeros or all ones
DriveFields ==
    /\ sim.at = "start"
    /\ sim.format = "fields"
    /\ \E funct7 \in (IF sim.other[1] \in KnownOpcodes THEN 0..127 ELSE {0, 32, 127}),
          funct3 \in 0..7 :
          Drive(EncR(funct7, sim.other[2], sim.other[2], funct3, sim.other[2],
                     sim.other[1]), 0)

\* the offsets each immediate format is driven with
Offsets12 == (-2048)..2047

OffsetsB == {2 * k : k \in (-2048)..2047}

SampleBits == {2 ^ k : k \in 0..18} \cup {(2 ^ k) - 1 : k \in 1..19}
                \cup {74565, 142993, 349525, 174762}

\* U-type: the immediate is upper * 4096, upper a signed 20-bit number
UppersU == SampleBits \cup {-(v + 1) : v \in SampleBits} \cup {0, -524288}

\* J-type: even offsets from -2^20 to 2^20 - 2
OffsetsJ == {2 * v : v \in UppersU}

DriveI ==
    /\ sim.at = "start"
    /\ sim.format = "I"
    /\ \E offset \in Offsets12 :
          Drive(EncI(offset, sim.other[1], sim.other[2], sim.other[3],
                     sim.other[4]), offset)

DriveS ==
    /\ sim.at = "start"
    /\ sim.format = "S"
    /\ \E offset \in Offsets12 :
          Drive(EncS(offset, sim.other[1], sim.other[2], sim.other[3],
                     sim.other[4]), offset)

DriveB ==
    /\ sim.at = "start"
    /\ sim.format = "B"
    /\ \E offset \in OffsetsB :
          Drive(EncB(offset, sim.other[1], sim.other[2], sim.other[3],
                     sim.other[4]), offset)

DriveU ==
    /\ sim.at = "start"
    /\ sim.format = "U"
    /\ \E upper \in UppersU :
          Drive(EncU(upper, sim.other[1], sim.other[2]), upper * 4096)

DriveJ ==
    /\ sim.at = "start"
    /\ sim.format = "J"
    /\ \E offset \in OffsetsJ :
          Drive(EncJ(offset, sim.other[1], sim.other[2]), offset)

\* the words of test_zero, test_ones, test_lui, test_jal, test_ori, test_sb
\* and test_bltu
TestVectors ==
    { ZeroWord, AllOnesWord, Word(4660, 22071), Word(4660, 24559),
      Word(33336, 25235), Word(17610, 2851), Word(9542, 25443) }

DriveVector ==
    /\ sim.at = "start"
    /\ sim.format = "vector"
    /\ \E w \in TestVectors : Drive(w, 0)

DecoderNext ==
    \/ DriveFields
    \/ DriveI
    \/ DriveS
    \/ DriveB
    \/ DriveU
    \/ DriveJ
    \/ DriveVector

DecoderSpec == DecoderInit /\ [][DecoderNext]_vars

(* ---------------------------------------------------------------------- *)
(* What the properties are stated with: the fields of an instruction word  *)
(* and the RV32I operation map, by arithmetic on the two halves of a word  *)
(* ---------------------------------------------------------------------- *)

FieldOpcode(w) == w.lo % 128

FieldRd(w) == (w.lo \div 128) % 32

FieldFunct3(w) == (w.lo \div 4096) % 8

FieldRs1(w) == (w.lo \div 32768) + 2 * (w.hi % 16)

FieldRs2(w) == (w.hi \div 16) % 32

FieldFunct7(w) == w.hi \div 512

BranchByFunct3 ==
    [f \in {0, 1, 4, 5, 6, 7} |->
        CASE f = 0 -> "BranchEQ" [] f = 1 -> "BranchNE" [] f = 4 -> "BranchLT"
          [] f = 5 -> "BranchGE" [] f = 6 -> "BranchLTUnsigned"
          [] OTHER -> "BranchGEUnsigned"]

LoadByFunct3 ==
    [f \in {0, 1, 2, 4, 5} |->
        CASE f = 0 -> "LoadByte" [] f = 1 -> "LoadHalf" [] f = 2 -> "LoadWord"
          [] f = 4 -> "LoadByteUnsigned" [] OTHER -> "LoadHalfUnsigned"]

StoreByFunct3 ==
    [f \in {0, 1, 2} |->
        CASE f = 0 -> "StoreByte" [] f = 1 -> "StoreHalf" [] OTHER -> "StoreWord"]

ImmAluByFunct3 ==
    [f \in {0, 2, 3, 4, 6, 7} |->
        CASE f = 0 -> "AddImm" [] f = 2 -> "SetLTImm" [] f = 3 -> "SetLTImmUnsigned"
          [] f = 4 -> "XorImm" [] f = 6 -> "OrImm" [] OTHER -> "AndImm"]

RegAluByFunct3 ==
    [f \in {1, 2, 3, 4, 6, 7} |->
        CASE f = 1 -> "ShiftLeft" [] f = 2 -> "SetLT" [] f = 3 -> "SetLTUnsigned"
          [] f = 4 -> "Xor" [] f = 6 -> "Or" [] OTHER -> "And"]

\* the operation RV32I gives to (funct7, funct3, opcode); "Invalid" where it
\* gives none
Rv32iOp(funct7, funct3, opcode) ==
    CASE opcode = 55 -> "LoadUpperImm"
      [] opcode = 23 -> "AddUpperImmPC"
      [] opcode = 111 -> "JumpAndLink"
      [] opcode = 103 /\ funct3 = 0 -> "JumpAndLinkReg"
      [] opcode = 99 /\ funct3 \in DOMAIN BranchByFunct3 -> BranchByFunct3[funct3]
      [] opcode = 3 /\ funct3 \in DOMAIN LoadByFunct3 -> LoadByFunct3[funct3]
      [] opcode = 35 /\ funct3 \in DOMAIN StoreByFunct3 -> StoreByFunct3[funct3]
      [] opcode = 19 /\ funct3 \in DOMAIN ImmAluByFunct3 -> ImmAluByFunct3[funct3]
      [] opcode = 19 /\ funct3 = 1 /\ funct7 = 0 -> "ShiftLeftImm"
      [] opcode = 19 /\ funct3 = 5 /\ funct7 \in {0, 32} -> "ShiftRightImm"
      [] opcode = 51 /\ funct3 = 0 /\ funct7 \in {0, 32} -> "AddOrSub"
      [] opcode = 51 /\ funct3 = 5 /\ funct7 \in {0, 32} -> "ShiftRight"
      [] opcode = 51 /\ funct3 \in DOMAIN RegAluByFunct3 /\ funct7 = 0 ->
            RegAluByFunct3[funct3]
      [] OTHER -> "Invalid"

\* the operation of an instruction word
OpOf(w) == Rv32iOp(FieldFunct7(w), FieldFunct3(w), FieldOpcode(w))

\* instruction bit 30
FieldBit30(w) == (w.hi \div 16384) % 2

\* a number of n bits read as two's complement
AsSigned(u, n) == IF u >= 2 ^ (n - 1) THEN u - 2 ^ n ELSE u

\* the immediates of an instruction word, as signed numbers
ImmI(w) == AsSigned(w.hi \div 16, 12)

ImmS(w) == AsSigned((w.hi \div 512) * 32 + FieldRd(w), 12)

ImmB(w) ==
    AsSigned((w.hi \div 32768) * 4096 + ((w.lo \div 128) % 2) * 2048
             + ((w.hi \div 512) % 64) * 32 + ((w.lo \div 256) % 16) * 2, 13)

ImmJ(w) ==
    AsSigned((w.hi \div 32768) * 1048576 + ((w.hi % 16) * 16 + (w.lo \div 4096)) * 4096
             + ((w.hi \div 16) % 2) * 2048 + ((w.hi \div 32) % 1024) * 2, 21)

\* the U-immediate: the word with its low 12 bits cleared
ImmU(w) == [hi |-> w.hi, lo |-> (w.lo \div 4096) * 4096]

\* the number n, -2^31 <= n < 2^31, as a 32-bit two's complement word
SignExt32(n) == [hi |-> (n \div 65536) % 65536, lo |-> n % 65536]

\* (w + n) mod 2^32 for a word w and a number n
WordPlus(w, n) ==
    LET lo == w.lo + (n % 65536)
    IN  [hi |-> (w.hi + ((n \div 65536) % 65536) + (lo \div 65536)) % 65536,
         lo |-> lo % 65536]

\* (a + b) mod 2^32 for two words
WordSum(a, b) ==
    LET lo == a.lo + b.lo
    IN  [hi |-> (a.hi + b.hi + (lo \div 65536)) % 65536, lo |-> lo % 65536]

\* a word read as a signed number
SignedValue(w) ==
    IF w.hi >= 32768 THEN (w.hi - 65536) * 65536 + w.lo ELSE w.hi * 65536 + w.lo

SignedLess(a, b) == SignedValue(a) < SignedValue(b)

\* unsigned order: the signed order, reversed when just one sign bit is set
UnsignedLess(a, b) ==
    SignedLess(a, b) # ((a.hi >= 32768) # (b.hi >= 32768))

\* byte l (0..3) of a word
ByteOf(w, l) ==
    CASE l = 0 -> w.lo % 256 [] l = 1 -> w.lo \div 256
      [] l = 2 -> w.hi % 256 [] OTHER -> w.hi \div 256

StoreNames == {"StoreByte", "StoreHalf", "StoreWord"}

\* the byte lanes a store of the given width at byte offset k (0..3) covers
StoreLanes(op, k) ==
    CASE op = "StoreByte" -> {k}
      [] op = "StoreHalf" -> IF k < 2 THEN {0, 1} ELSE {2, 3}
      [] OTHER -> {0, 1, 2, 3}

\* the byte of the register value v a store of the given width puts on lane l
StoreLaneData(op, v, l) ==
    CASE op = "StoreByte" -> ByteOf(v, 0)
      [] op = "StoreHalf" -> ByteOf(v, l % 2)
      [] OTHER -> ByteOf(v, l)

\* the index of the memory word holding byte address ea
WordIndexOf(ea) == ((ea.hi - 1) * 16384 + (ea.lo \div 4)) % MemDepth

\* the byte address ea lies in a word of the writable window
InWritableWindow(ea) == ea.hi >= 1 /\ ea.hi < 256

(* ---------------------------------------------------------------------- *)
(* The properties                                                          *)
(* ---------------------------------------------------------------------- *)

\* C1: whenever the word fetched in a cycle matches none of the recognised
\* (funct7, funct3, opcode) patterns (the all-zeros and the all-ones words
\* among them), the decoder's operation is Invalid and the cycle leaves the
\* PC as it is.
C1_UnrecognisedWordStalls ==
    [][\A s \in {Sig} :
          OpOf(s.instruction) = "Invalid"
              => s.decoder.op = "Invalid" /\ pc' = pc]_vars

\* C1, its case: the all-ones word was fetched at 0x10008 in the third cycle
\* and the PC is still there
C1_StalledOnAllOnes ==
    /\ cycle = 3
    /\ pc = Word(1, 8)
    /\ MemoryRead(mem, pc) = AllOnesWord
    /\ Sig.decoder.op = "Invalid"

\* C2: in every reachable state register 0 holds 0, and a read port whose
\* index is 0 reads 0, whatever instructions have been executed.
C2_RegisterZeroIsZero ==
    /\ regs[0] = ZeroWord
    /\ \A s \in {Sig} :
           /\ FieldRs1(s.instruction) = 0 => s.rs1_read_data = ZeroWord
           /\ FieldRs2(s.instruction) = 0 => s.rs2_read_data = ZeroWord

\* C2, its case: lui x0, 0x12345 was the third instruction executed, and
\* the next instruction reads register 0
C2_AfterWriteToRegisterZero ==
    /\ cycle = 3
    /\ pc = Word(1, 12)
    /\ mem[2] = EncU(74565, 0, 55)
    /\ FieldRs1(MemoryRead(mem, pc)) = 0
    /\ regs[0] = ZeroWord

\* C3: a register write shows one cycle later.  An instruction whose rd is
\* also its rs1 or rs2 computes with the value the register held before the
\* write (AddImm and the add form of AddOrSub are stated by value), the
\* register holds the written value after the clock edge, and a read port
\* with that index returns it in the following cycle; so addi x1, x0, 5
\* followed by add x2, x1, x1 leaves 10 in register 2.
C3_WriteVisibleNextCycle ==
    /\ [](cycle = 2 /\ mem[0] = EncI(5, 0, 0, 1, 19) /\ mem[1] = EncR(0, 1, 1, 0, 2, 51)
            => regs[1] = Word(0, 5) /\ regs[2] = Word(0, 10))
    /\ [][\A s \in {Sig} :
            LET w == s.instruction
                rd == FieldRd(w)
            IN  /\ s.rs1_read_data = regs[FieldRs1(w)]
                /\ s.rs2_read_data = regs[FieldRs2(w)]
                /\ OpOf(w) = "AddImm" /\ rd # 0
                      => regs'[rd] = WordPlus(regs[FieldRs1(w)], ImmI(w))
                /\ OpOf(w) = "AddOrSub" /\ FieldBit30(w) = 0 /\ rd # 0
                      => regs'[rd] = WordSum(regs[FieldRs1(w)], regs[FieldRs2(w)])
                /\ s.rd_write_enable = 1 /\ rd # 0
                      => /\ regs'[rd] = s.rd_write_data
                         /\ \A t \in {CPUSignals(pc', regs', mem')} :
                               /\ FieldRs1(t.instruction) = rd
                                     => t.rs1_read_data = s.rd_write_data
                               /\ FieldRs2(t.instruction) = rd
                                     => t.rs2_read_data = s.rd_write_data]_vars

\* C3, its case: addi x1, x0, 5 and then add x2, x1, x1 have been executed
C3_AddAfterAddImm ==
    /\ cycle = 2
    /\ mem[0] = EncI(5, 0, 0, 1, 19)
    /\ mem[1] = EncR(0, 1, 1, 0, 2, 51)
    /\ regs[2] = Word(0, 10)

\* C4: a store changes no memory word but the addressed one, and in that
\* word no byte outside its lanes: the lane given by the low 2 bits of the
\* effective address for StoreByte, the two lanes of the half given by bit 1
\* for StoreHalf, all four for StoreWord.  A store into the writable window
\* puts the register's byte, half or word on those lanes.
C4_StoreChangesOnlyItsLanes ==
    [][\A s \in {Sig} :
          LET w == s.instruction
              op == OpOf(w)
              ea == WordPlus(regs[FieldRs1(w)], ImmS(w))
              lanes == StoreLanes(op, ea.lo % 4)
              a == WordIndexOf(ea)
          IN  op \in StoreNames =>
                /\ \A j \in MemIndices \ {a} : mem'[j] = mem[j]
                /\ \A l \in (0..3) \ lanes : ByteOf(mem'[a], l) = ByteOf(mem[a], l)
                /\ InWritableWindow(ea) =>
                      \A l \in lanes :
                          ByteOf(mem'[a], l) = StoreLaneData(op, regs[FieldRs2(w)], l)]_vars

\* C4, its case: sb x2, 1(x1) with x1 = 0x10000 and x2 = -1 has been
\* executed: byte 1 of word 0 is 0xFF and its other bytes are those of the
\* lui that was there
C4_AfterByteStore ==
    /\ cycle = 3
    /\ mem[2] = EncS(1, 2, 1, 0, 35)
    /\ regs[1] = Word(1, 0)
    /\ regs[2] = AllOnesWord
    /\ ByteOf(mem[0], 1) = 255
    /\ mem[0] # EncU(16, 1, 55)
    /\ \A l \in {0, 2, 3} : ByteOf(mem[0], l) = ByteOf(EncU(16, 1, 55), l)

\* C6, as the code has it: output_port_valid is 1 exactly in the cycles whose
\* instruction is a store with the word-aligned effective address
\* (rs1 + immediate with its low 2 bits cleared) equal to 0x10000000 and
\* with byte lane 0 among the lanes it writes; it is 0 in every other cycle.
C6_ValidOnStoreToPortLaneZero ==
    \A s \in {Sig} :
        LET w == s.instruction
            op == OpOf(w)
            ea == WordPlus(regs[FieldRs1(w)], ImmS(w))
        IN  s.output_port_valid = 1
              <=> /\ op \in StoreNames
                  /\ ea.hi = 4096
                  /\ ea.lo \div 4 = 0
                  /\ 0 \in StoreLanes(op, ea.lo % 4)

\* C6, its case: sh x2, 1(x1) with x1 = 0x10000000 is being executed; the
\* effective address is 0x10000001 and output_port_valid is 1
C6_HalfStoreOneAbovePort ==
    /\ cycle = 2
    /\ MemoryRead(mem, pc) = EncS(1, 2, 1, 1, 35)
    /\ regs[1] = Word(4096, 0)
    /\ Sig.load_store_address = Word(4096, 1)
    /\ Sig.output_port_valid = 1

\* C6 as stated: output_port_valid is 1 exactly in the cycles whose
\* instruction is a store with effective address rs1 + immediate equal to
\* 0x10000000.
C6_ValidIffStoreAtPortAddress ==
    \A s \in {Sig} :
        LET w == s.instruction
            ea == WordPlus(regs[FieldRs1(w)], ImmS(w))
        IN  s.output_port_valid = 1
              <=> (OpOf(w) \in StoreNames /\ ea = [hi |-> 4096, lo |-> 0])

\* C9: halt is permanent.  In a cycle whose instruction decodes to Invalid
\* output_port_valid is 0, and the clock edge leaves the PC, the 32
\* registers and every memory word as they are, so that the next cycle
\* fetches the same word and decodes Invalid again: by induction the state
\* never changes afterwards.
C9_HaltIsPermanent ==
    /\ [](\A s \in {Sig} : s.decoder.op = "Invalid" => s.output_port_valid = 0)
    /\ [][\A s \in {Sig} :
            s.decoder.op = "Invalid" =>
                /\ pc' = pc
                /\ regs' = regs
                /\ mem' = mem
                /\ \A t \in {CPUSignals(pc', regs', mem')} :
                       /\ t.instruction = s.instruction
                       /\ t.decoder.op = "Invalid"
                       /\ t.output_port_valid = 0]_vars

\* C9, its case: the processor fetched the all-zeros word at 0x1000C in its
\* fourth cycle and is still there, with the registers it had, at the last
C9_StillHalted ==
    /\ cycle = MaxCycles
    /\ pc = Word(1, 12)
    /\ MemoryRead(mem, pc) = ZeroWord
    /\ Sig.decoder.op = "Invalid"
    /\ regs[1] = Word(0, 5)
    /\ regs[3] = Word(0, 10)

\* C10: a branch sets the next PC to (PC + B-immediate) mod 2^32 when its
\* condition holds and to PC + 4 otherwise; BranchEQ and BranchNE test the
\* two register values for equality, BranchLT and BranchGE compare them as
\* signed two's complement numbers, BranchLTUnsigned and BranchGEUnsigned as
\* unsigned numbers.
C10_BranchNextPc ==
    [][\A s \in {Sig} :
          LET w == s.instruction
              op == OpOf(w)
              a == regs[FieldRs1(w)]
              b == regs[FieldRs2(w)]
              taken == CASE op = "BranchEQ" -> a = b
                         [] op = "BranchNE" -> a # b
                         [] op = "BranchLT" -> SignedLess(a, b)
                         [] op = "BranchGE" -> ~SignedLess(a, b)
                         [] op = "BranchLTUnsigned" -> UnsignedLess(a, b)
                         [] OTHER -> ~UnsignedLess(a, b)
          IN  FieldOpcode(w) = 99 /\ op # "Invalid" =>
                pc' = IF taken THEN WordPlus(pc, ImmB(w)) ELSE WordPlus(pc, 4)]_vars

\* C10, its case: blt x1, x2, 8 at 0x10008 with x1 = -1 and x2 = 5 was
\* taken (as unsigned numbers x1 is the larger)
C10_SignedBranchTaken ==
    /\ cycle = 3
    /\ mem[2] = EncB(8, 2, 1, 4, 99)
    /\ regs[1] = AllOnesWord
    /\ regs[2] = Word(0, 5)
    /\ pc = Word(1, 16)

\* C5: the decoder gives back an offset encoded into an immediate format,
\* sign-extended to 32 bits, whatever the other bits of the word: I and S
\* for -2048..2047, B for the even values -4096..4094, J for even values
\* from -2^20 to 2^20 - 2, U for multiples of 4096.
C5_ImmediateRoundTrip ==
    sim.at = "driven" =>
        /\ sim.format = "I" => decoder_out.i_type_immediate = SignExt32(sim.offset)
        /\ sim.format = "S" => decoder_out.s_type_immediate = SignExt32(sim.offset)
        /\ sim.format = "B" => decoder_out.b_type_immediate = SignExt32(sim.offset)
        /\ sim.format = "U" => decoder_out.u_type_immediate = SignExt32(sim.offset)
        /\ sim.format = "J" => decoder_out.j_type_immediate = SignExt32(sim.offset)

\* C5, its case: the offset -2048 was encoded into an I-type word whose
\* other bits are all ones, and decoded as 0xFFFFF800
C5_LowestITypeOffset ==
    /\ sim.at = "driven"
    /\ sim.format = "I"
    /\ sim.other = <<31, 7, 31, 127>>
    /\ sim.offset = -2048
    /\ decoder_out.i_type_immediate = [hi |-> 65535, lo |-> 63488]

\* C7: the decoder's operation is the one the RV32I map gives to the
\* word's (funct7, funct3, opcode), Invalid where the map gives none; and
\* for ShiftRightImm, AddOrSub and ShiftRight the variant is Sub_ShiftSigned
\* when instruction bit 30 is set and Add_ShiftUnsigned when it is not.
C7_OperationMap ==
    sim.at = "driven" =>
        /\ decoder_out.op = OpOf(instruction_in)
        /\ decoder_out.op \in {"ShiftRightImm", "AddOrSub", "ShiftRight"} =>
              decoder_out.variant =
                  IF FieldBit30(instruction_in) = 1
                  THEN "Sub_ShiftSigned" ELSE "Add_ShiftUnsigned"

\* C7, its case: opcode OP with funct3 101 and funct7 0100000 (sra) was
\* applied
C7_ShiftRightArithmeticDecoded ==
    /\ sim.at = "driven"
    /\ sim.format = "fields"
    /\ FieldOpcode(instruction_in) = 51
    /\ FieldFunct3(instruction_in) = 5
    /\ FieldFunct7(instruction_in) = 32
    /\ decoder_out.op = "ShiftRight"
    /\ decoder_out.variant = "Sub_ShiftSigned"

\* the immediate format of an operation: "R" where it has no immediate
FormatOf(op) ==
    CASE op \in {"LoadUpperImm", "AddUpperImmPC"} -> "U"
      [] op = "JumpAndLink" -> "J"
      [] op \in {"BranchEQ", "BranchNE", "BranchLT", "BranchGE",
                 "BranchLTUnsigned", "BranchGEUnsigned"} -> "B"
      [] op \in StoreNames -> "S"
      [] op \in {"JumpAndLinkReg", "LoadByte", "LoadHalf", "LoadWord",
                 "LoadByteUnsigned", "LoadHalfUnsigned", "AddImm", "SetLTImm",
                 "SetLTImmUnsigned", "XorImm", "OrImm", "AndImm", "ShiftLeftImm",
                 "ShiftRightImm"} -> "I"
      [] OTHER -> "R"

\* the immediate of a word read in a format
ImmediateIn(format, w) ==
    CASE format = "U" -> ImmU(w)
      [] format = "J" -> SignExt32(ImmJ(w))
      [] format = "B" -> SignExt32(ImmB(w))
      [] format = "S" -> SignExt32(ImmS(w))
      [] OTHER -> SignExt32(ImmI(w))

\* the width of a load or a store
WidthOf(op) ==
    CASE op \in {"LoadByte", "LoadByteUnsigned", "StoreByte"} -> "Byte"
      [] op \in {"LoadHalf", "LoadHalfUnsigned", "StoreHalf"} -> "Half"
      [] op \in {"LoadWord", "StoreWord"} -> "Word"
      [] OTHER -> "none"

\* C8: for a recognised word the decoder gives rd = bits 11..7,
\* rs1 = bits 19..15, rs2 = bits 24..20, the immediate of the operation's
\* format (U for LoadUpperImm and AddUpperImmPC, J for JumpAndLink, B for
\* the branches, S for the stores, I for JumpAndLinkReg, the loads and the
\* immediate ALU operations) and, for a load or a store, its width; so
\* 0x44CA0B23 gives StoreByte, immediate 0x456, rs1 0x14, rs2 0xC and Byte.
C8_FieldsImmediateAndWidth ==
    sim.at = "driven" =>
        /\ \A op \in {OpOf(instruction_in)} :
              op # "Invalid" =>
                /\ decoder_out.rd = FieldRd(instruction_in)
                /\ decoder_out.rs1 = FieldRs1(instruction_in)
                /\ decoder_out.rs2 = FieldRs2(instruction_in)
                /\ FormatOf(op) # "R" =>
                      decoder_out.immediate = ImmediateIn(FormatOf(op), instruction_in)
                /\ WidthOf(op) # "none" => decoder_out.load_store_size = WidthOf(op)
        /\ instruction_in = [hi |-> 17610, lo |-> 2851] =>
              /\ decoder_out.op = "StoreByte"
              /\ decoder_out.immediate = [hi |-> 0, lo |-> 1110]
              /\ decoder_out.rs1 = 20
              /\ decoder_out.rs2 = 12
              /\ decoder_out.load_store_size = "Byte"

\* C8, its case: the word 0x44CA0B23 of test_sb was applied
C8_TestSbDecoded ==
    /\ sim.at = "driven"
    /\ sim.format = "vector"
    /\ instruction_in = [hi |-> 17610, lo |-> 2851]
    /\ decoder_out.op = "StoreByte"
    /\ decoder_out.immediate = [hi |-> 0, lo |-> 1110]

\* a word with bit 0 cleared
EvenWord(w) == [hi |-> w.hi, lo |-> w.lo - (w.lo % 2)]

\* C11: JumpAndLink writes rd = PC + 4 and sets the next PC to
\* (PC + J-immediate) mod 2^32; JumpAndLinkReg writes rd = PC + 4 and sets
\* the next PC to (rs1 + I-immediate) mod 2^32 with bit 0 cleared, where rs1
\* is the value held before the link is written, also when rd and rs1 are
\* the same register.  (Register 0 stays zero: C2.)
C11_JumpAndLink ==
    [][\A s \in {Sig} :
          LET w == s.instruction
              op == OpOf(w)
              rd == FieldRd(w)
          IN  /\ op = "JumpAndLink" =>
                    /\ pc' = WordPlus(pc, ImmJ(w))
                    /\ rd # 0 => regs'[rd] = WordPlus(pc, 4)
              /\ op = "JumpAndLinkReg" =>
                    /\ pc' = EvenWord(WordPlus(regs[FieldRs1(w)], ImmI(w)))
                    /\ rd # 0 => regs'[rd] = WordPlus(pc, 4)]_vars

\* C11 witness: jalr x1, -4(x1) has run with x1 = 5: the PC is 0 (5 - 4 with
\* bit 0 cleared) and x1 holds the link
C11_AfterJalrThroughItsOwnLink ==
    /\ cycle = 3
    /\ mem[2] = EncI(-4, 1, 0, 1, 103)
    /\ mem[0] = EncI(5, 0, 0, 1, 19)
    /\ pc = ZeroWord
    /\ regs[1] = WordPlus(StartWord, 12)

\* C12: a load writes rd with data read from the memory word at index
\* ((rs1 + immediate) - base) >> 2: LoadByte and LoadByteUnsigned take the
\* byte lane given by the low 2 bits of the effective address, LoadHalf and
\* LoadHalfUnsigned the half-word given by its bit 1, LoadWord the full
\* word; LoadByte and LoadHalf sign-extend what they select to 32 bits and
\* the Unsigned variants zero-extend it.
C12_LoadSelectsAndExtends ==
    [][\A s \in {Sig} :
          LET w == s.instruction
              op == OpOf(w)
              rd == FieldRd(w)
              ea == WordPlus(regs[FieldRs1(w)], ImmI(w))
              word == mem[WordIndexOf(ea)]
              byte == ByteOf(word, ea.lo % 4)
              half == IF (ea.lo \div 2) % 2 = 0 THEN word.lo ELSE word.hi
              value == CASE op = "LoadByte" -> SignExt32(AsSigned(byte, 8))
                         [] op = "LoadByteUnsigned" -> SignExt32(byte)
                         [] op = "LoadHalf" -> SignExt32(AsSigned(half, 16))
                         [] op = "LoadHalfUnsigned" -> SignExt32(half)
                         [] OTHER -> word
          IN  FieldOpcode(w) = 3 /\ op # "Invalid" /\ rd # 0 =>
                 regs'[rd] = value]_vars

\* C12 witness: lb x3, 0(x1) with x1 = 0x10000 has read byte 0 of word 0,
\* 0xB7 of the lui that is there, and x3 holds 0xFFFFFFB7
C12_AfterLoadByteOfNegative ==
    /\ cycle = 3
    /\ mem[2] = EncI(0, 1, 0, 3, 3)
    /\ mem[0] = EncU(16, 1, 55)
    /\ regs[1] = StartWord
    /\ regs[3] = [hi |-> 65535, lo |-> 65463]

\* the positions of the one bits of a 16-bit number, and the number that
\* has its one bits at the positions of a set
OnesOf(x) == { k \in 0..15 : (x \div (2 ^ k)) % 2 = 1 }

NumOf(S) ==
    LET f[k \in 0..16] ==
            IF k = 16 THEN 0 ELSE (IF k \in S THEN 2 ^ k ELSE 0) + f[k + 1]
    IN  f[0]

WordAnd(a, b) ==
    [hi |-> NumOf(OnesOf(a.hi) \cap OnesOf(b.hi)),
     lo |-> NumOf(OnesOf(a.lo) \cap OnesOf(b.lo))]

WordOr(a, b) ==
    [hi |-> NumOf(OnesOf(a.hi) \cup OnesOf(b.hi)),
     lo |-> NumOf(OnesOf(a.lo) \cup OnesOf(b.lo))]

WordXor(a, b) ==
    [hi |-> NumOf((OnesOf(a.hi) \cup OnesOf(b.hi)) \ (OnesOf(a.hi) \cap OnesOf(b.hi))),
     lo |-> NumOf((OnesOf(a.lo) \cup OnesOf(b.lo)) \ (OnesOf(a.lo) \cap OnesOf(b.lo)))]

\* (a - b) mod 2^32 for two words
WordDiff(a, b) ==
    LET lo == a.lo - b.lo
    IN  [hi |-> (a.hi - b.hi + (lo \div 65536)) % 65536, lo |-> lo % 65536]

\* C13: AddImm, XorImm, OrImm and AndImm write rd = rs1 op (sign-extended
\* I-immediate); AddOrSub writes rs1 - rs2 when the variant is
\* Sub_ShiftSigned (bit 30 of the word set) and rs1 + rs2 otherwise; Xor, Or
\* and And write rs1 op rs2; LoadUpperImm writes the U-immediate and
\* AddUpperImmPC the U-immediate + PC; every result is taken modulo 2^32.
C13_ArithmeticAndLogic ==
    [][\A s \in {Sig} :
          LET w == s.instruction
              op == OpOf(w)
              rd == FieldRd(w)
              a == regs[FieldRs1(w)]
              b == regs[FieldRs2(w)]
              i == SignExt32(ImmI(w))
              value == CASE op = "AddImm" -> WordPlus(a, ImmI(w))
                         [] op = "XorImm" -> WordXor(a, i)
                         [] op = "OrImm" -> WordOr(a, i)
                         [] op = "AndImm" -> WordAnd(a, i)
                         [] op = "AddOrSub" ->
                               IF FieldBit30(w) = 1 THEN WordDiff(a, b) ELSE WordSum(a, b)
                         [] op = "Xor" -> WordXor(a, b)
                         [] op = "Or" -> WordOr(a, b)
                         [] op = "And" -> WordAnd(a, b)
                         [] op = "LoadUpperImm" -> ImmU(w)
                         [] OTHER -> WordSum(ImmU(w), pc)
          IN  /\ op \in {"AddImm", "XorImm", "OrImm", "AndImm", "AddOrSub", "Xor", "Or",
                         "And", "LoadUpperImm", "AddUpperImmPC"}
              /\ rd # 0
              => regs'[rd] = value]_vars

\* C13 witness: sub x3, x1, x2 with x1 = 5 and x2 = 255 has run: the
\* borrow runs through every bit and x3 holds 0xFFFFFF06
C13_AfterSubWithBorrow ==
    /\ cycle = 3
    /\ mem[2] = EncR(32, 2, 1, 0, 3, 51)
    /\ regs[1] = [hi |-> 0, lo |-> 5]
    /\ regs[2] = [hi |-> 0, lo |-> 255]
    /\ regs[3] = [hi |-> 65535, lo |-> 65286]

\* C14: SetLTImm and SetLT write rd = 1 when rs1 is less than the second
\* operand, both read as two's-complement signed 32-bit values;
\* SetLTImmUnsigned and SetLTUnsigned write rd = 1 when rs1 is less than the
\* second operand, both read as unsigned 32-bit values (the sign-extended
\* immediate reinterpreted as unsigned); in every other case they write 0.
C14_SetLessThan ==
    [][\A s \in {Sig} :
          LET w == s.instruction
              op == OpOf(w)
              rd == FieldRd(w)
              a == regs[FieldRs1(w)]
              b == IF op \in {"SetLTImm", "SetLTImmUnsigned"}
                   THEN SignExt32(ImmI(w)) ELSE regs[FieldRs2(w)]
              less == IF op \in {"SetLTImm", "SetLT"}
                      THEN SignedLess(a, b) ELSE UnsignedLess(a, b)
          IN  /\ op \in {"SetLTImm", "SetLT", "SetLTImmUnsigned", "SetLTUnsigned"}
              /\ rd # 0
              => regs'[rd] = [hi |-> 0, lo |-> IF less THEN 1 ELSE 0]]_vars

\* C14 witness: sltiu x3, x1, -3 with x1 = 5 has run: 5 is below
\* 0xFFFFFFFD as an unsigned number and x3 holds 1
C14_AfterUnsignedCompareWithNegativeImmediate ==
    /\ cycle = 3
    /\ mem[2] = EncI(-3, 1, 3, 3, 19)
    /\ regs[1] = [hi |-> 0, lo |-> 5]
    /\ regs[3] = [hi |-> 0, lo |-> 1]

\* one place to the left (the bit leaving bit 31 is lost), and one place to
\* the right with the given bit entering at bit 31
DoubleWord(w) ==
    [hi |-> (2 * w.hi + (w.lo \div 32768)) % 65536, lo |-> (2 * w.lo) % 65536]

HalveWord(w, top) ==
    [hi |-> (w.hi \div 2) + 32768 * top, lo |-> (w.lo \div 2) + 32768 * (w.hi % 2)]

\* w moved n places, one place at a time
PlacesLeft(w, n) ==
    LET f[k \in 0..31] == IF k = 0 THEN w ELSE DoubleWord(f[k - 1])
    IN  f[n]

PlacesRight(w, n, top) ==
    LET f[k \in 0..31] == IF k = 0 THEN w ELSE HalveWord(f[k - 1], top)
    IN  f[n]

\* C15: ShiftLeftImm, ShiftRightImm, ShiftLeft and ShiftRight use only the
\* low 5 bits of the immediate or of rs2 as the shift amount (0..31); a left
\* shift keeps the low 32 bits of the result; a right shift fills the
\* vacated high bits with bit 31 of rs1 when the variant is Sub_ShiftSigned
\* (bit 30 of the word set) and with zeros when it is Add_ShiftUnsigned.
C15_Shifts ==
    [][\A s \in {Sig} :
          LET w == s.instruction
              op == OpOf(w)
              rd == FieldRd(w)
              a == regs[FieldRs1(w)]
              amount == IF op \in {"ShiftLeftImm", "ShiftRightImm"}
                        THEN ImmI(w) % 32 ELSE regs[FieldRs2(w)].lo % 32
              top == IF FieldBit30(w) = 1 THEN a.hi \div 32768 ELSE 0
          IN  /\ op \in {"ShiftLeftImm", "ShiftRightImm", "ShiftLeft", "ShiftRight"}
              /\ rd # 0
              => regs'[rd] = IF op \in {"ShiftLeftImm", "ShiftLeft"}
                             THEN PlacesLeft(a, amount)
                             ELSE PlacesRight(a, amount, top)]_vars

\* C15 witness: sra x3, x1, x2 with x1 = 0x80000000 and x2 = 0xFFFFF8A5 has
\* run: the amount is 5, the low 5 bits of x2, and x3 holds 0xFC000000
C15_AfterArithmeticShiftOfNegative ==
    /\ cycle = 3
    /\ mem[2] = EncR(32, 2, 1, 5, 3, 51)
    /\ regs[1] = [hi |-> 32768, lo |-> 0]
    /\ regs[2] = [hi |-> 65535, lo |-> 63653]
    /\ regs[3] = [hi |-> 64512, lo |-> 0]

\* C16: the memory word array is updated in a cycle if and only if the
\* cycle executes a store whose data address lies within
\* [0x10000, 0x1000000): such a store puts the register's byte, half or word
\* on its lanes of the addressed word; a store whose address is outside that
\* window (below the base, at or above the end, or at the output-port
\* sentinel) and every instruction that is not a store leave every memory
\* word unchanged.
C16_MemoryWrittenOnlyByStoresInWindow ==
    [][\A s \in {Sig} :
          LET w == s.instruction
              op == OpOf(w)
              ea == WordPlus(regs[FieldRs1(w)], ImmS(w))
              a == WordIndexOf(ea)
          IN  IF op \in StoreNames /\ InWritableWindow(ea)
              THEN \A l \in StoreLanes(op, ea.lo % 4) :
                      ByteOf(mem'[a], l) = StoreLaneData(op, regs[FieldRs2(w)], l)
              ELSE mem' = mem]_vars

\* C16 witness: sw x2, 0(x1) with x1 = 0x1000000, the end of the window, and
\* x2 = -1 has run, and no memory word holds the all-ones word
C16_AfterStoreAtTheEndOfTheWindow ==
    /\ cycle = 3
    /\ mem[2] = EncS(0, 2, 1, 2, 35)
    /\ regs[1] = EndWord
    /\ regs[2] = AllOnesWord
    /\ \A j \in MemIndices : mem[j] # AllOnesWord

\* C17: when the data address of a store (its effective address with the
\* low 2 bits cleared) equals the output-port sentinel 0x10000000,
\* output_port_data in that cycle equals the low byte of the store's rs2
\* value, for every store width, and the value is not stored: the store
\* modifies no memory word.
C17_StoreToOutputPort ==
    [][\A s \in {Sig} :
          LET w == s.instruction
              op == OpOf(w)
              ea == WordPlus(regs[FieldRs1(w)], ImmS(w))
          IN  /\ op \in StoreNames
              /\ ea.hi = 4096
              /\ ea.lo \div 4 = 0
              => /\ s.output_port_data = regs[FieldRs2(w)].lo % 256
                 /\ mem' = mem]_vars

\* C17 witness: the cycle of sh x2, 0(x1) with x1 = 0x10000000 and
\* x2 = 0xFFFFF8A5: output_port_data is 0xA5
C17_HalfStoreToOutputPort ==
    /\ cycle = 2
    /\ pc = WordPlus(StartWord, 8)
    /\ mem[2] = EncS(0, 2, 1, 1, 35)
    /\ regs[1] = OutputPortWord
    /\ regs[2] = [hi |-> 65535, lo |-> 63653]
    /\ Sig.output_port_data = 165

\* C18: in every cycle at most one register changes value, and it can only
\* be the register indexed by the rd field of the instruction executed in
\* that cycle; no register changes in a cycle that executes a store, a
\* branch or an Invalid instruction, or an instruction whose rd is 0.
C18_OnlyRdChanges ==
    [][\A s \in {Sig} :
          LET w == s.instruction
              op == OpOf(w)
              changed == { i \in RegIndices : regs'[i] # regs[i] }
          IN  /\ changed \subseteq {FieldRd(w)}
              /\ \/ op \in StoreNames
                 \/ FieldOpcode(w) = 99
                 \/ op = "Invalid"
                 \/ FieldRd(w) = 0
                 => changed = {}]_vars

\* C18 witness: sw x2, 1(x1) with x1 = 5 has run; bits 11..7 of the word,
\* which are the rd of other formats, hold 1, and x1 is still 5
C18_AfterStoreWithOneInTheRdBits ==
    /\ cycle = 3
    /\ mem[2] = EncS(1, 2, 1, 2, 35)
    /\ FieldRd(mem[2]) = 1
    /\ mem[0] = EncI(5, 0, 0, 1, 19)
    /\ regs[1] = [hi |-> 0, lo |-> 5]

\* the operation values the decoder gives over all values of the three
\* fields its patterns compare
DecodableOps ==
    { FirstMatch(DecoderArms, opcode, funct3, funct7).op :
          opcode \in 0..127, funct3 \in 0..7, funct7 \in 0..127 }

\* C19, as the code has it: the decoder's operation output is always one of
\* the 34 named operations of Op, or Invalid: the set of operation values
\* the decoder can produce over all instruction words has exactly 34 members
\* besides Invalid, every named member of Op.
C19_ThirtyFourOperations ==
    /\ decoder_out.op \in DecodableOps
    /\ DecodableOps = Op
    /\ Cardinality(DecodableOps \ {"Invalid"}) = 34

\* C19 witness: a word was applied that decodes to ShiftRight, the last
\* member of Op, which is one of the 34
C19_LastOperationDecoded ==
    /\ sim.at = "driven"
    /\ decoder_out.op = "ShiftRight"
    /\ "ShiftRight" \in DecodableOps
    /\ Cardinality(DecodableOps \ {"Invalid", "ShiftRight"}) = 33

\* C19, as stated: the decoder's operation output is always one of 33 named
\* operations, or Invalid: the set of operation values the decoder can
\* produce has exactly 33 members besides Invalid.
C19_ThirtyThreeOperations ==
    /\ decoder_out.op \in DecodableOps
    /\ Cardinality(DecodableOps \ {"Invalid"}) = 33

\* the load operations of the width of a store
LoadsOfWidth(op) ==
    CASE op = "StoreByte" -> {"LoadByte", "LoadByteUnsigned"}
      [] op = "StoreHalf" -> {"LoadHalf", "LoadHalfUnsigned"}
      [] OTHER -> {"LoadWord"}

\* what a load gives back of a stored register value v
LoadedBack(op, v) ==
    CASE op = "LoadByte" -> SignExt32(AsSigned(v.lo % 256, 8))
      [] op = "LoadByteUnsigned" -> SignExt32(v.lo % 256)
      [] op = "LoadHalf" -> SignExt32(AsSigned(v.lo, 16))
      [] op = "LoadHalfUnsigned" -> SignExt32(v.lo)
      [] OTHER -> v

\* C20: store-then-load round trip: when a cycle executes a StoreByte,
\* StoreHalf or StoreWord inside the window to effective address A with
\* source value v, the reads of that same cycle (the data read port and the
\* instruction fetch) still see the words as they were; a load of the same
\* width from A executed in the next cycle writes rd with v's low 8, 16 or
\* 32 bits, sign-extended for LoadByte/LoadHalf and zero-extended for
\* LoadByteUnsigned/LoadHalfUnsigned; and an instruction fetch from that
\* word in the next cycle sees the stored value.
C20_StoreThenLoad ==
    [][\A s \in {Sig} :
          LET w == s.instruction
              op == OpOf(w)
              ea == WordPlus(regs[FieldRs1(w)], ImmS(w))
              a == WordIndexOf(ea)
              v == regs[FieldRs2(w)]
          IN  op \in StoreNames /\ InWritableWindow(ea) =>
                /\ s.read_data = mem[a]
                /\ s.instruction = mem[WordIndexOf(pc)]
                /\ \A t \in {CPUSignals(pc', regs', mem')} :
                      LET w2 == t.instruction
                          op2 == OpOf(w2)
                      IN  /\ /\ op2 \in LoadsOfWidth(op)
                             /\ WordPlus(regs'[FieldRs1(w2)], ImmI(w2)) = ea
                             => /\ t.rd_write_enable = 1
                                /\ t.decoder.rd = FieldRd(w2)
                                /\ t.rd_write_data = LoadedBack(op2, v)
                          /\ WordIndexOf(pc') = a =>
                                \A l \in StoreLanes(op, ea.lo % 4) :
                                    ByteOf(w2, l) = StoreLaneData(op, v, l)]_vars

\* C20 witness: sb x2, 1(x1) and then lb x3, 1(x1) have run with
\* x1 = 0x10000 and x2 = 255: byte 1 of word 0 is 0xFF and x3 holds -1
C20_AfterByteStoreAndLoadBack ==
    /\ cycle = 4
    /\ mem[2] = EncS(1, 2, 1, 0, 35)
    /\ mem[3] = EncI(1, 1, 0, 3, 3)
    /\ regs[1] = StartWord
    /\ regs[2] = [hi |-> 0, lo |-> 255]
    /\ ByteOf(mem[0], 1) = 255
    /\ regs[3] = AllOnesWord

\* the condition of a branch on the register values a and b
BranchHolds(op, a, b) ==
    CASE op = "BranchEQ" -> a = b
      [] op = "BranchNE" -> a # b
      [] op = "BranchLT" -> SignedLess(a, b)
      [] op = "BranchGE" -> ~SignedLess(a, b)
      [] op = "BranchLTUnsigned" -> UnsignedLess(a, b)
      [] op = "BranchGEUnsigned" -> ~UnsignedLess(a, b)
      [] OTHER -> FALSE

\* C21: the PC starts at the reset address 0x10000, the memory base, so the
\* first instruction executed is word 0 of the initial image, and it is
\* updated every cycle: for every load, store, ALU operation, LoadUpperImm,
\* AddUpperImmPC and not-taken branch the next PC is (PC + 4) mod 2^32; only
\* a taken branch, a jump or an Invalid instruction gives any other next PC.
C21_ResetAndFallthrough ==
    /\ pc = [hi |-> 1, lo |-> 0]
    /\ \A s \in {Sig} : s.instruction = mem[0]
    /\ [][\A s \in {Sig} :
            LET w == s.instruction
                op == OpOf(w)
                taken == BranchHolds(op, regs[FieldRs1(w)], regs[FieldRs2(w)])
            IN  /\ op \notin {"Invalid", "JumpAndLink", "JumpAndLinkReg"} /\ ~taken
                    => pc' = WordPlus(pc, 4)
                /\ pc' # WordPlus(pc, 4)
                    => \/ op \in {"Invalid", "JumpAndLink", "JumpAndLinkReg"}
                       \/ taken]_vars

\* C21 witness: from reset, two setup instructions and bge x1, x2 with
\* x1 = -1 and x2 = 5, which is not taken, have run: the PC is 0x1000C
C21_AfterBranchNotTaken ==
    /\ cycle = 3
    /\ FieldOpcode(mem[2]) = 99
    /\ FieldFunct3(mem[2]) = 5
    /\ regs[1] = AllOnesWord
    /\ regs[2] = [hi |-> 0, lo |-> 5]
    /\ pc = [hi |-> 1, lo |-> 12]

\* the arms in the opposite order
ReversedArms(arms) == [k \in 1..Len(arms) |-> arms[Len(arms) + 1 - k]]

\* C22: the decoder's match patterns are mutually exclusive: no instruction
\* word matches more than one of the Case patterns, so exactly one operation
\* is produced per decode (that of the one matching arm, Invalid when there
\* is none) and the result does not depend on the order in which the arms
\* are written.
C22_PatternsMutuallyExclusive ==
    sim.at = "driven" =>
        \A arms \in {DecoderArms} :
            LET opcode == FieldOpcode(instruction_in)
                funct3 == FieldFunct3(instruction_in)
                funct7 == FieldFunct7(instruction_in)
                hit == { k \in 1..Len(arms) :
                            Matches(arms[k].pat, opcode, funct3, funct7) }
            IN  /\ Cardinality(hit) <= 1
                /\ \A k \in hit : decoder_out.op = arms[k].op
                /\ hit = {} => decoder_out.op = "Invalid"
                /\ FirstMatch(ReversedArms(arms), opcode, funct3, funct7).op
                       = decoder_out.op

\* C22 witness: srli (opcode OP-IMM, funct3 101, funct7 0000000) was
\* applied; its funct7 also fits the pattern of slli, whose funct3 differs
C22_ShiftRightImmDecoded ==
    /\ sim.at = "driven"
    /\ FieldOpcode(instruction_in) = 19
    /\ FieldFunct3(instruction_in) = 5
    /\ FieldFunct7(instruction_in) = 0
    /\ decoder_out.op = "ShiftRightImm"

\* C23: in every reachable state bit 0 of the PC is 0 (the reset address is
\* even, PC + 4 and PC + B/J-immediate keep it even, JumpAndLinkReg clears
\* bit 0 of its target and Invalid keeps the PC).  The PC is not guaranteed
\* to stay a multiple of 4: the witness is a state where it is not.
C23_PcIsEven == pc.lo % 2 = 0

\* C23 witness: jal x0, 6 has run from 0x10008 and the PC is 0x1000E, even
\* and not a multiple of 4
C23_PcNotMultipleOfFour ==
    /\ cycle = 3
    /\ mem[2] = EncJ(6, 0, 111)
    /\ pc = [hi |-> 1, lo |-> 14]
    /\ pc.lo % 2 = 0
    /\ pc.lo % 4 = 2

====
